---------------------------- MODULE Spec2Model ----------------------------
(***************************************************************************)
(* A model of the radio server (src/sockserver.py): the MP3 frame scanner  *)
(* (Radio.calculate_buffer_duration, Radio.find_chunk_by_time), the        *)
(* Watchdog registry and its reaper loop, the streaming session            *)
(* (Radio.consumer), the clock (Radio.producer) and the accept loop        *)
(* (Radio.main) with its STAT and TADD branches.                           *)
(*                                                                         *)
(* Bytes are integers 0..255, a block is a sequence of bytes and the       *)
(* buffer is a sequence of blocks.  Python indices are 0-based and are     *)
(* kept as they are in the code; element i of a Python list is element     *)
(* i + 1 of the TLA+ sequence.                                             *)
(*                                                                         *)
(* Durations: the code adds the floats 1152 / sample_rate.  Here they are  *)
(* exact multiples of 1 / UnitsPerSec second, so sums and comparisons are  *)
(* those of exact arithmetic (floating-point rounding is not modelled).    *)
(***************************************************************************)
EXTENDS Integers, Sequences, FiniteSets, TLC

VARIABLES
    buffer,        \* Radio.buffer: sequence of blocks
    playlist,      \* Radio.playlist: sequence of track records
    running,       \* Radio.running
    up_time,       \* Radio.up_time
    radio_time,    \* Radio.radio_time
    buffer_length, \* local of Radio.producer: duration computed at clock start
    prod_pc,       \* position of the producer thread
    now,           \* time.time(), in milliseconds
    wd_procs,      \* Watchdog.__proccesses: list of [id, heartbeat]
    wd_running,    \* Watchdog.running
    wd_pc,         \* position of the reaper thread (Watchdog.watch)
    wd_idx,        \* index of the list iterator of the reaper's for loop
    wd_cur,        \* entry the reaper's for loop is handling
    wd_sweeps,     \* iterations of the reaper's while loop taken so far
    reaped,        \* ids whose entry was removed by the reaper, with the time
    sess,          \* per streaming session: the locals of Radio.consumer
    main_pc,       \* position of the accept loop (Radio.main)
    conn,          \* the last accepted connection: request, handler state, reply
    accepted,      \* number of connections accepted so far
    fr_pc,         \* frame-scanner harness: position
    fr_frames,     \* frame-scanner harness: the frames the stream was built from
    fr_target,     \* frame-scanner harness: target time handed to find_chunk_by_time
    fr_dur,        \* frame-scanner harness: result of calculate_buffer_duration
    fr_find        \* frame-scanner harness: result of find_chunk_by_time

vars == <<buffer, playlist, running, up_time, radio_time, buffer_length,
          prod_pc, now, wd_procs, wd_running, wd_pc, wd_idx, wd_cur,
          wd_sweeps, reaped, sess, main_pc, conn, accepted,
          fr_pc, fr_frames, fr_target, fr_dur, fr_find>>

clockVars == <<up_time, radio_time, buffer_length, prod_pc>>
wdVars    == <<wd_procs, wd_running, wd_pc, wd_idx, wd_cur, wd_sweeps, reaped>>
mainVars  == <<main_pc, conn, accepted>>
frVars    == <<fr_pc, fr_frames, fr_target, fr_dur, fr_find>>

-----------------------------------------------------------------------------
(* Sequence helpers *)

RECURSIVE SumSeq(_)
SumSeq(s) == IF s = <<>> THEN 0 ELSE Head(s) + SumSeq(Tail(s))

RECURSIVE Flatten(_)
Flatten(blocks) ==
    IF blocks = <<>> THEN <<>> ELSE Head(blocks) \o Flatten(Tail(blocks))

\* Python slice data[from:] with a 0-based start (empty when from >= len)
SliceFrom(data, from) == SubSeq(data, from + 1, Len(data))

Min(S) == CHOOSE x \in S : \A y \in S : x <= y

-----------------------------------------------------------------------------
(* MP3 frame headers: Radio.__parse_mp3_header *)

\* durations are counted in units of 1/12250 s: the least unit in which
\* 1152/44100, 1152/48000 and 1152/32000 are whole numbers (320, 294, 441)
UnitsPerSec == 2 * 5 * 5 * 5 * 7 * 7

\* None is written 0 in the two tables
bitrates == <<0, 32, 40, 48, 56, 64, 80, 96, 112, 128, 160, 192, 224, 256, 320, 0>>
sample_rates == <<44100, 48000, 32000, 0>>

NoHeader == [ok |-> FALSE]

\* header is a sequence of 4 bytes.  (header[1] & 0xE0) == 0xE0 holds of a
\* byte exactly when it is >= 0xE0 = 224.
parse_mp3_header(header) ==
    IF (header[1] # 255) \/ (header[2] < 224)
    THEN NoHeader
    ELSE LET bitrate_index     == (header[3] \div 16) % 16
             sample_rate_index == (header[3] \div 4) % 4
             padding_bit       == (header[3] \div 2) % 2
             bitrate           == bitrates[bitrate_index + 1]
             sample_rate       == sample_rates[sample_rate_index + 1]
         IN  IF bitrate = 0 \/ sample_rate = 0
             THEN NoHeader
             ELSE [ok          |-> TRUE,
                   bitrate     |-> bitrate,
                   sample_rate |-> sample_rate,
                   frame_size  |-> ((144 * bitrate * 1000) \div sample_rate) + padding_bit,
                   duration    |-> (1152 * UnitsPerSec) \div sample_rate]

-----------------------------------------------------------------------------
(* Radio.calculate_buffer_duration *)

\* does the while loop stop shifting by one byte at position q: either a
\* header parses there, or fewer than 4 bytes are left
StopsAt(data, q) ==
    \/ q + 4 > Len(data)
    \/ parse_mp3_header(SubSeq(data, q + 1, q + 4)).ok

\* the first position in lo..hi at which the loop stops shifting (there is
\* one: StopsAt(data, hi)); found by bisection
RECURSIVE FirstStop(_, _, _)
FirstStop(data, lo, hi) ==
    IF lo >= hi THEN hi
    ELSE LET mid == (lo + hi) \div 2
         IN  IF \E q \in lo..mid : StopsAt(data, q)
             THEN FirstStop(data, lo, mid)
             ELSE FirstStop(data, mid + 1, hi)

\* the else branch of the while loop taken until it no longer applies:
\* position += 1 while 4 bytes are left and no header parses at position
Resync(data, position) ==
    IF position + 4 > Len(data) THEN position
    ELSE FirstStop(data, position, Len(data) - 3)

\* the inner while loop over one `data`: returns the position it stops at
\* and the duration accumulated so far
RECURSIVE ScanData(_, _, _)
ScanData(data, position, total_duration) ==
    LET p == Resync(data, position)
    IN  IF p + 4 <= Len(data)
        THEN LET parsed == parse_mp3_header(SubSeq(data, p + 1, p + 4))
             IN  ScanData(data, p + parsed.frame_size,
                          total_duration + parsed.duration)
        ELSE [position |-> p, total_duration |-> total_duration]

\* the for loop over the blocks, from block k on
RECURSIVE ScanBlocks(_, _, _, _)
ScanBlocks(buf, k, leftover, total_duration) ==
    IF k > Len(buf)
    THEN total_duration
    ELSE LET data == leftover \o buf[k]
             r    == ScanData(data, 0, total_duration)
         IN  ScanBlocks(buf, k + 1, SliceFrom(data, r.position), r.total_duration)

calculate_buffer_duration(buf) == ScanBlocks(buf, 1, <<>>, 0)

-----------------------------------------------------------------------------
(* Radio.find_chunk_by_time *)

\* the inner while loop: stops either at the frame that reaches target_time
\* (hit) or at the end of `data`
RECURSIVE FindInData(_, _, _, _)
FindInData(data, position, total_duration, target_time) ==
    LET p == Resync(data, position)
    IN  IF p + 4 <= Len(data)
        THEN LET parsed == parse_mp3_header(SubSeq(data, p + 1, p + 4))
             IN  IF total_duration + parsed.duration >= target_time
                 THEN [hit |-> TRUE, position |-> p,
                       total_duration |-> total_duration + parsed.duration]
                 ELSE FindInData(data, p + parsed.frame_size,
                                 total_duration + parsed.duration, target_time)
        ELSE [hit |-> FALSE, position |-> p, total_duration |-> total_duration]

RECURSIVE FindBlocks(_, _, _, _, _)
FindBlocks(buf, k, leftover, total_duration, target_time) ==
    IF k > Len(buf)
    THEN [found |-> FALSE]                       \* raise ValueError
    ELSE LET data == leftover \o buf[k]
             r    == FindInData(data, 0, total_duration, target_time)
         IN  IF r.hit
             THEN [found |-> TRUE, i |-> k - 1, position |-> r.position]
             ELSE FindBlocks(buf, k + 1, SliceFrom(data, r.position),
                             r.total_duration, target_time)

\* target_time is in duration units (seconds * UnitsPerSec)
find_chunk_by_time(buf, target_time) == FindBlocks(buf, 1, <<>>, 0, target_time)

-----------------------------------------------------------------------------
(* Watchdog: the registry operations *)

\* the ids of the streaming sessions (uuid.uuid4(): all different)
Ids == {1, 2}

death == 100              \* Watchdog.death, seconds
MsPerSec == 10 * 10 * 10  \* `now` and the heartbeats are in milliseconds
DeathMs == death * MsPerSec
PollMs == 50              \* time.sleep(0.05) of Watchdog.watch

\* [_ for _ in self.__proccesses if _["id"] == id]
Matches(procs, id) == {k \in 1..Len(procs) : procs[k].id = id}
HasProc(procs, id) == Matches(procs, id) # {}
\* ...[0]: the first match (IndexError when there is none)
FirstMatch(procs, id) == Min(Matches(procs, id))

RemoveAt(procs, k) == SubSeq(procs, 1, k - 1) \o SubSeq(procs, k + 1, Len(procs))

\* Watchdog.active
active(procs) == Len(procs)

\* Watchdog.new_process
new_process(procs, id) == Append(procs, [id |-> id, heartbeat |-> -1])

\* Watchdog.beat, for an id that has an entry
beat(procs, id, t) ==
    [procs EXCEPT ![FirstMatch(procs, id)].heartbeat = t]

\* a variant of is_alive for which an entry is dead as soon as its age
\* reaches `death`
is_alive_ge(procs, id, t) ==
    IF ~HasProc(procs, id) THEN FALSE
    ELSE LET proc == procs[FirstMatch(procs, id)]
         IN  IF proc.heartbeat = -1 THEN TRUE
             ELSE IF t - proc.heartbeat >= DeathMs THEN FALSE ELSE TRUE

\* a variant of is_alive without the not-started sentinel
is_alive_no_sentinel(procs, id, t) ==
    IF ~HasProc(procs, id) THEN FALSE
    ELSE ~(t - procs[FirstMatch(procs, id)].heartbeat > DeathMs)

\* Watchdog.is_alive at time t
is_alive(procs, id, t) ==
    IF ~HasProc(procs, id)
    THEN FALSE                                   \* except IndexError
    ELSE LET proc == procs[FirstMatch(procs, id)]
         IN  IF proc.heartbeat = -1 THEN TRUE
             ELSE IF t - proc.heartbeat > DeathMs THEN FALSE ELSE TRUE

\* self.__proccesses.remove(proc), for an entry that is in the list
remove_entry(procs, id) == RemoveAt(procs, FirstMatch(procs, id))

-----------------------------------------------------------------------------
(* Watchdog.watch: the reaper thread *)

MaxSweeps == 2

\* the sleeps the reaper takes in one step: one poll interval, or a run of
\* poll intervals (see WatchSleep) that ends just before or just after an
\* entry reaches the age `death`
SleepSteps == {PollMs, DeathMs - PollMs, DeathMs + PollMs}

\* A client of kind "prompt" answers so that the session's consecutive
\* heartbeats are less than `death` apart: time does not reach
\* heartbeat + death while such a session is running.
PromptOk(t) ==
    \A s \in Ids :
        (sess[s].kind = "prompt" /\ sess[s].pc \notin {"idle", "done", "crashed"}
            /\ HasProc(wd_procs, s)
            /\ wd_procs[FirstMatch(wd_procs, s)].heartbeat # -1)
        => t - wd_procs[FirstMatch(wd_procs, s)].heartbeat < DeathMs

\* the value of wd_cur while no sweep is under way
NoProc == 0

\* for proc in self.__proccesses: the list iterator yields the element at
\* its index and advances, or ends the loop when the index is past the end
\* of the list as it is now; the iterator is then discarded and proc is not
\* read again before the next loop assigns it
WatchFor ==
    /\ wd_pc = "for"
    /\ IF wd_idx < Len(wd_procs)
       THEN /\ wd_cur' = wd_procs[wd_idx + 1].id
            /\ wd_idx' = wd_idx + 1
            /\ wd_pc' = "check"
       ELSE /\ wd_pc' = "sleep"
            /\ wd_cur' = NoProc /\ wd_idx' = 0
    /\ UNCHANGED <<buffer, playlist, running, clockVars, now, wd_procs,
                   wd_running, wd_sweeps, reaped, sess, mainVars, frVars>>

\* if not self.is_alive(proc["id"])
WatchCheck ==
    /\ wd_pc = "check"
    /\ wd_pc' = IF is_alive(wd_procs, wd_cur, now) THEN "for" ELSE "find"
    /\ UNCHANGED <<buffer, playlist, running, clockVars, now, wd_procs,
                   wd_running, wd_idx, wd_cur, wd_sweeps, reaped, sess,
                   mainVars, frVars>>

\* remove_process, line 61: the lookup; IndexError is not caught in watch
WatchFind ==
    /\ wd_pc = "find"
    /\ wd_pc' = IF HasProc(wd_procs, wd_cur) THEN "remove" ELSE "crashed"
    /\ UNCHANGED <<buffer, playlist, running, clockVars, now, wd_procs,
                   wd_running, wd_idx, wd_cur, wd_sweeps, reaped, sess,
                   mainVars, frVars>>

\* remove_process, lines 63-64: list.remove under the lock; ValueError when
\* the entry left the list since the lookup
WatchRemove ==
    /\ wd_pc = "remove"
    /\ IF HasProc(wd_procs, wd_cur)
       THEN /\ wd_procs' = remove_entry(wd_procs, wd_cur)
            /\ reaped' = reaped \cup {wd_cur}
            /\ wd_pc' = "for"
       ELSE /\ wd_pc' = "crashed"
            /\ UNCHANGED <<wd_procs, reaped>>
    /\ UNCHANGED <<buffer, playlist, running, clockVars, now, wd_running,
                   wd_idx, wd_cur, wd_sweeps, sess, mainVars, frVars>>

\* time.sleep(0.05), then the while test and a new for loop.  A sweep that
\* finds every entry alive changes nothing, so a run of d / PollMs
\* iterations whose sweeps (all but the last) find every entry alive is one
\* step: time advances by d and the sweep at now + d begins.
WatchSleep ==
    /\ wd_pc = "sleep"
    /\ wd_sweeps < MaxSweeps
    /\ \E d \in SleepSteps :
         /\ \A k \in 1..Len(wd_procs) :
                d > PollMs => is_alive(wd_procs, wd_procs[k].id, now + d - PollMs)
         /\ PromptOk(now + d)
         /\ now' = now + d
    /\ wd_sweeps' = wd_sweeps + 1
    /\ IF wd_running
       THEN wd_pc' = "for" /\ wd_idx' = 0
       ELSE wd_pc' = "done" /\ UNCHANGED wd_idx
    /\ UNCHANGED <<buffer, playlist, running, clockVars, wd_procs, wd_running,
                   wd_cur, reaped, sess, mainVars, frVars>>

\* time also passes when the reaper thread has ended
TimePasses ==
    /\ wd_pc \in {"crashed", "done"}
    /\ wd_sweeps < MaxSweeps
    /\ \E d \in SleepSteps : PromptOk(now + d) /\ now' = now + d
    /\ wd_sweeps' = wd_sweeps + 1
    /\ UNCHANGED <<buffer, playlist, running, clockVars, wd_procs, wd_running,
                   wd_pc, wd_idx, wd_cur, reaped, sess, mainVars, frVars>>

-----------------------------------------------------------------------------
(* Radio.consumer: one streaming session per id *)

MaxSends == 2

RECV == <<"R", "E", "C", "V">>

\* what one client.recv(4) can return: the token, other bytes, a short
\* read, or nothing (the peer closed)
Responses == {RECV, <<"S", "T", "O", "P">>, <<"R", "E">>, <<>>}

\* b"RECV" in resp
ContainsRecv(resp) ==
    \E k \in 1..Len(resp) : k + 3 <= Len(resp) /\ SubSeq(resp, k, k + 3) = RECV

\* a variant of the test of line 285 that never closes
non_recv_packet_never(resp) == FALSE

\* if b"RECV" not in resp
non_recv_packet(resp) == ~ContainsRecv(resp)

\* the thread is started with an open client socket; the client is either
\* prompt (see PromptOk) or arbitrary
ConsumerStart(s) ==
    /\ running
    /\ sess[s].pc = "idle"
    /\ \E kind \in {"prompt", "any"} :
         sess' = [sess EXCEPT ![s].pc = "start", ![s].kind = kind, ![s].sock = "open"]
    /\ UNCHANGED <<buffer, playlist, running, clockVars, now, wdVars,
                   mainVars, frVars>>

\* lines 253-262: register, then find the join position; the ValueError of
\* find_chunk_by_time is not caught
ConsumerJoin(s) ==
    /\ sess[s].pc = "start"
    /\ wd_procs' = new_process(wd_procs, s)
    /\ LET r == find_chunk_by_time(buffer, radio_time * UnitsPerSec)
       IN  sess' = IF r.found
                   THEN [sess EXCEPT ![s].pc = "loop", ![s].i = r.i, ![s].join = r.i,
                                     ![s].join_time = radio_time]
                   ELSE [sess EXCEPT ![s].pc = "crashed", ![s].err = "ValueError"]
    /\ UNCHANGED <<buffer, playlist, running, clockVars, now, wd_running, wd_pc,
                   wd_idx, wd_cur, wd_sweeps, reaped, mainVars, frVars>>

\* line 264: while self.running and self.watchdog.is_alive(id)
ConsumerLoop(s) ==
    /\ sess[s].pc = "loop"
    /\ sess' = [sess EXCEPT ![s].pc =
                    IF running /\ is_alive(wd_procs, s, now) THEN "send" ELSE "teardown"]
    /\ UNCHANGED <<buffer, playlist, running, clockVars, now, wdVars,
                   mainVars, frVars>>

\* a variant of the wrap that resets the cursor one block early
cursor_early(i, n) == IF i + 1 >= n THEN 0 ELSE i

\* a variant of the wrap that lets the cursor reach the buffer length
cursor_gt(i, n) == IF i > n THEN 0 ELSE i

\* lines 272-273: the cursor after `if i >= len(self.buffer): i = 0`
cursor(i, n) == IF i >= n THEN 0 ELSE i

\* lines 272-279: wrap the cursor, send the block, heartbeat, i += 1.  The
\* IndexError of beat for an entry that is gone is not caught by the except
\* clause of line 291 and ends the thread.
ConsumerSend(s) ==
    /\ sess[s].pc = "send"
    /\ Len(sess[s].sent_idx) < MaxSends
    /\ LET i == cursor(sess[s].i, Len(buffer))
       IN  IF i >= Len(buffer)
           THEN /\ sess' = [sess EXCEPT ![s].pc = "crashed",   \* self.buffer[0] of an empty buffer
                                        ![s].err = "IndexError"]
                /\ UNCHANGED wd_procs
           ELSE IF HasProc(wd_procs, s)
           THEN /\ wd_procs' = beat(wd_procs, s, now)
                /\ sess' = [sess EXCEPT ![s].i = i + 1,
                                        ![s].sent_idx = Append(@, i),
                                        ![s].pc = "recv"]
           ELSE /\ sess' = [sess EXCEPT ![s].i = i,
                                        ![s].sent_idx = Append(@, i),
                                        ![s].pc = "crashed",
                                        ![s].err = "IndexError"]
                /\ UNCHANGED wd_procs
    /\ UNCHANGED <<buffer, playlist, running, clockVars, now, wd_running, wd_pc,
                   wd_idx, wd_cur, wd_sweeps, reaped, mainVars, frVars>>

\* lines 282-290: the blocking read returns resp
ConsumerRecv(s) ==
    /\ sess[s].pc = "recv"
    /\ \E resp \in Responses :
         sess' = IF non_recv_packet(resp)
                 THEN [sess EXCEPT ![s].sock = "closed", ![s].pc = "teardown",
                                   ![s].acks = @ + (IF ContainsRecv(resp) THEN 1 ELSE 0)]
                 ELSE [sess EXCEPT ![s].pc = "loop",
                                   ![s].acks = @ + (IF ContainsRecv(resp) THEN 1 ELSE 0)]
    /\ UNCHANGED <<buffer, playlist, running, clockVars, now, wdVars,
                   mainVars, frVars>>

\* lines 291-293: the read raises ConnectionResetError
ConsumerReset(s) ==
    /\ sess[s].pc = "recv"
    /\ sess' = [sess EXCEPT ![s].pc = "teardown"]
    /\ UNCHANGED <<buffer, playlist, running, clockVars, now, wdVars,
                   mainVars, frVars>>

\* line 295, remove_process line 61: the lookup; its IndexError is caught
\* at line 296 and the socket is closed
ConsumerTeardownFind(s) ==
    /\ sess[s].pc = "teardown"
    /\ sess' = IF HasProc(wd_procs, s)
               THEN [sess EXCEPT ![s].pc = "teardown_remove"]
               ELSE [sess EXCEPT ![s].pc = "done", ![s].sock = "closed"]
    /\ UNCHANGED <<buffer, playlist, running, clockVars, now, wdVars,
                   mainVars, frVars>>

\* remove_process lines 63-64: list.remove under the lock; its ValueError
\* is not an IndexError and ends the thread
ConsumerTeardownRemove(s) ==
    /\ sess[s].pc = "teardown_remove"
    /\ IF HasProc(wd_procs, s)
       THEN /\ wd_procs' = remove_entry(wd_procs, s)
            /\ sess' = [sess EXCEPT ![s].pc = "done"]
       ELSE /\ sess' = [sess EXCEPT ![s].pc = "crashed", ![s].err = "ValueError"]
            /\ UNCHANGED wd_procs
    /\ UNCHANGED <<buffer, playlist, running, clockVars, now, wd_running, wd_pc,
                   wd_idx, wd_cur, wd_sweeps, reaped, mainVars, frVars>>

\* what client.send can raise: the peer reset the connection, or the
\* connection is broken (EPIPE);  what client.recv can raise: the peer reset
\* the connection, or the retransmissions timed out (ETIMEDOUT)
SendErrors == {"ConnectionResetError", "BrokenPipeError"}
RecvErrors == {"ConnectionResetError", "TimeoutError"}
TransportErrors == SendErrors \cup RecvErrors

\* the except clause of line 291
Caught(e) == e = "ConnectionResetError"

\* lines 272-277: client.send raises, before the heartbeat and i += 1
ConsumerSendRaises(s) ==
    /\ sess[s].pc = "send"
    /\ Len(buffer) > 0
    /\ \E e \in SendErrors :
         sess' = [sess EXCEPT ![s].i = cursor(@, Len(buffer)),
                              ![s].pc = IF Caught(e) THEN "teardown" ELSE "crashed",
                              ![s].err = IF Caught(e) THEN @ ELSE e]
    /\ UNCHANGED <<buffer, playlist, running, clockVars, now, wdVars,
                   mainVars, frVars>>

\* line 282: client.recv raises an error other than ConnectionResetError
\* (for that one see ConsumerReset)
ConsumerRecvRaises(s) ==
    /\ sess[s].pc = "recv"
    /\ \E e \in RecvErrors :
         /\ ~Caught(e)
         /\ sess' = [sess EXCEPT ![s].pc = "crashed", ![s].err = e]
    /\ UNCHANGED <<buffer, playlist, running, clockVars, now, wdVars,
                   mainVars, frVars>>

Consumer(s) ==
    \/ ConsumerJoin(s) \/ ConsumerLoop(s) \/ ConsumerSend(s)
    \/ ConsumerRecv(s) \/ ConsumerReset(s)
    \/ ConsumerTeardownFind(s) \/ ConsumerTeardownRemove(s)

-----------------------------------------------------------------------------
(* Byte streams made of valid frames, used as inputs *)

MaxFrames == 2

\* a frame: the header FF FB b2 00 followed by a payload of zero bytes; when
\* fake_at > 0 the four payload bytes at offset fake_at of the frame are
\* FF FB fake_b2 00, payload data that happens to look like a header
FrameHeader(b2) == <<255, 251, b2, 0>>

FrameSize(kind) == parse_mp3_header(FrameHeader(kind.b2)).frame_size
FrameDuration(kind) == parse_mp3_header(FrameHeader(kind.b2)).duration

FrameBytes(kind) ==
    [k \in 1..FrameSize(kind) |->
        IF k <= 4 THEN FrameHeader(kind.b2)[k]
        ELSE IF kind.fake_at > 0 /\ k - 1 >= kind.fake_at /\ k - 1 < kind.fake_at + 4
             THEN FrameHeader(kind.fake_b2)[k - kind.fake_at]
             ELSE 0]

\* 0x14: 32 kbit/s at 48000 Hz, 96 bytes;  0x12: 32 kbit/s at 44100 Hz with
\* padding, 105 bytes;  0x18: 32 kbit/s at 32000 Hz, 144 bytes
Plain(b2) == [b2 |-> b2, fake_at |-> 0, fake_b2 |-> 0]
WithFake(b2, at, fb2) == [b2 |-> b2, fake_at |-> at, fake_b2 |-> fb2]

FrameKinds == {Plain(20), Plain(18), WithFake(20, 40, 18)}

RECURSIVE StreamBytes(_)
StreamBytes(frames) ==
    IF frames = <<>> THEN <<>>
    ELSE FrameBytes(Head(frames)) \o StreamBytes(Tail(frames))

Streams == UNION {[1..n -> FrameKinds] : n \in 1..MaxFrames}

\* the ways of storing a byte stream as one block or as two non-empty blocks
Splits(bytes) ==
    {<<bytes>>} \cup
    {<<SubSeq(bytes, 1, c), SubSeq(bytes, c + 1, Len(bytes))>> : c \in 1..(Len(bytes) - 1)}

\* frame k of the stream: byte offset of its header in the stream, and the
\* duration accumulated up to and including it
FrameStart(frames, k) == SumSeq([j \in 1..(k - 1) |-> FrameSize(frames[j])])
FrameCum(frames, k)   == SumSeq([j \in 1..k |-> FrameDuration(frames[j])])
TotalDuration(frames) == FrameCum(frames, Len(frames))

\* 0-based index of the block that holds byte offset p of the flattened
\* buffer, and the offset of that byte inside the block
BlockStart(buf, b) == SumSeq([j \in 1..b |-> Len(buf[j])])   \* start of block b (0-based)
BlockOf(buf, p) ==
    Min({b \in 0..(Len(buf) - 1) : p < BlockStart(buf, b + 1)})
OffsetIn(buf, p) == p - BlockStart(buf, BlockOf(buf, p))

-----------------------------------------------------------------------------
(* States outside the part a specification exercises *)

NoFind == [found |-> FALSE]
NoConn == [data |-> <<>>, state |-> "none", reply |-> <<>>, at |-> -1]
IdleSession == [pc |-> "idle", kind |-> "any", i |-> 0, join |-> -1,
                join_time |-> -1, sent_idx |-> <<>>, acks |-> 0, sock |-> "none",
                err |-> "none", got |-> 0, recvs |-> 0]

RadioIdle ==
    /\ playlist = <<>>
    /\ running = FALSE
    /\ up_time = 0 /\ radio_time = 0 /\ buffer_length = 0 /\ prod_pc = "idle"
    /\ main_pc = "idle" /\ conn = NoConn /\ accepted = 0
    /\ sess = [s \in Ids |-> IdleSession]

WatchdogIdle ==
    /\ now = 0
    /\ wd_procs = <<>> /\ wd_running = FALSE /\ wd_pc = "idle"
    /\ wd_idx = 0 /\ wd_cur = NoProc /\ wd_sweeps = 0 /\ reaped = {}

FramesIdle ==
    /\ fr_pc = "idle" /\ fr_frames = <<>> /\ fr_target = 0
    /\ fr_dur = -1 /\ fr_find = NoFind

-----------------------------------------------------------------------------
(* SpecFrames: the two scanners applied to buffers made of valid frames *)

\* buffers that hold no frame: the buffer of a server started with an empty
\* track list, and a block of bytes without a frame header
NoFrameBuffers == {<<>>, << <<0, 0, 0, 0, 0>> >>}

InitFrames ==
    /\ \/ \E frames \in Streams :
            /\ fr_frames = frames
            /\ buffer \in Splits(StreamBytes(frames))
       \/ /\ fr_frames = <<>>
          /\ buffer \in NoFrameBuffers
    /\ fr_pc = "start" /\ fr_target = 0 /\ fr_dur = -1 /\ fr_find = NoFind
    /\ RadioIdle /\ WatchdogIdle

\* target times handed to find_chunk_by_time: 0, every cumulative frame
\* duration and the instant after it
Targets(frames) ==
    {0} \cup {FrameCum(frames, k) : k \in 1..Len(frames)}
        \cup {FrameCum(frames, k) + 1 : k \in 1..Len(frames)}

FrCalc ==
    /\ fr_pc = "start"
    /\ fr_dur' = calculate_buffer_duration(buffer)
    /\ fr_pc' = "calc"
    /\ UNCHANGED <<buffer, playlist, running, clockVars, now, wdVars, sess,
                   mainVars, fr_frames, fr_target, fr_find>>

FrFind ==
    /\ fr_pc = "calc"
    /\ \E t \in Targets(fr_frames) :
         /\ fr_target' = t
         /\ fr_find' = find_chunk_by_time(buffer, t)
    /\ fr_pc' = "done"
    /\ UNCHANGED <<buffer, playlist, running, clockVars, now, wdVars, sess,
                   mainVars, fr_frames, fr_dur>>

NextFrames == FrCalc \/ FrFind

SpecFrames == InitFrames /\ [][NextFrames]_vars

FirstFrameReaching(frames, t) ==
    Min({k \in 1..Len(frames) : FrameCum(frames, k) >= t})

\* C8: for a target time within the total duration find_chunk_by_time
\* returns the block and the byte offset inside that block of the first
\* frame whose cumulative duration is >= the target.
C8_FindReturnsFrameBlockAndOffset ==
    (fr_pc = "done" /\ fr_frames # <<>> /\ fr_target <= TotalDuration(fr_frames)) =>
        LET k == FirstFrameReaching(fr_frames, fr_target)
            p == FrameStart(fr_frames, k)
        IN  /\ fr_find.found
            /\ fr_find.i = BlockOf(buffer, p)
            /\ fr_find.position = OffsetIn(buffer, p)

\* C22: find_chunk_by_time signals the not-found failure exactly when the
\* target time exceeds the total duration that calculate_buffer_duration
\* reports for the same buffer, and returns a position for every target time
\* that does not exceed it.
C22_NotFoundIffBeyondDuration ==
    fr_pc = "done" => (~fr_find.found <=> fr_target > fr_dur)

-----------------------------------------------------------------------------
(* Files, Radio.add_track and the startup of the program *)

\* Radio.chunk_size.  The program reads blocks of 90000 bytes; the model
\* reads blocks of 1344 bytes so that a file of a few blocks is a few
\* thousand bytes.
chunk_size == 1344

\* b.mp3: one frame of 96 bytes.
\* a.mp3: 29 frames of 144 bytes (0.036 s each, 1.044 s in all); the payload
\* of the 10th frame holds the bytes FF FB 14 00 at offset 100.
FileB == FrameBytes(Plain(20))
FileA == StreamBytes([k \in 1..29 |-> IF k = 10 THEN WithFake(24, 100, 20) ELSE Plain(24)])

\* c.mp3: 15 frames of 96 bytes, one byte-block more than chunk_size holds
FileC == StreamBytes([k \in 1..15 |-> Plain(20)])

Files == [p \in {"a.mp3", "b.mp3", "c.mp3"} |->
            IF p = "a.mp3" THEN FileA ELSE IF p = "b.mp3" THEN FileB ELSE FileC]

\* the read loop of add_track: f.read(chunk_size) until it returns nothing
RECURSIVE ReadChunks(_)
ReadChunks(bytes) ==
    IF bytes = <<>> THEN <<>>
    ELSE IF Len(bytes) <= chunk_size THEN <<bytes>>
    ELSE <<SubSeq(bytes, 1, chunk_size)>> \o ReadChunks(SliceFrom(bytes, chunk_size))

\* a variant of add_track that puts the new blocks in front
add_track_prepend(buf, track) == ReadChunks(Files[track]) \o buf

\* Radio.add_track for a path that can be opened
add_track(buf, track) == buf \o ReadChunks(Files[track])

\* __main__, lines 388-396: add_track and playlist.append for every track
RECURSIVE LoadTracks(_, _)
LoadTracks(buf, tracks) ==
    IF tracks = <<>> THEN buf
    ELSE LoadTracks(add_track(buf, Head(tracks).path), Tail(tracks))

Track(path, length) == [path |-> path, length |-> length]

\* the state when radio.main() is called with the playlist `tracks` loaded
Loaded(tracks) ==
    /\ buffer = LoadTracks(<<>>, tracks)
    /\ playlist = tracks
    /\ running = FALSE
    /\ up_time = 0 /\ radio_time = 0 /\ buffer_length = 0 /\ prod_pc = "idle"
    /\ main_pc = "idle" /\ conn = NoConn /\ accepted = 0
    /\ sess = [s \in Ids |-> IdleSession]

\* Radio.main, lines 301-320: set running, start the two threads, bind
MainStart ==
    /\ main_pc = "idle"
    /\ running' = TRUE
    /\ wd_running' = TRUE /\ wd_pc' = "for" /\ wd_idx' = 0
    /\ prod_pc' = "start"
    /\ main_pc' = "accept"
    /\ UNCHANGED <<buffer, playlist, up_time, radio_time, buffer_length, now,
                   wd_procs, wd_cur, wd_sweeps, reaped, sess, conn, accepted, frVars>>

-----------------------------------------------------------------------------
(* SpecWatch: streaming sessions and the reaper, with time *)

InitWatch ==
    /\ Loaded(<<Track("b.mp3", 1), Track("b.mp3", 1)>>)
    /\ WatchdogIdle
    /\ FramesIdle

NextWatch ==
    \/ MainStart
    \/ WatchFor \/ WatchCheck \/ WatchFind \/ WatchRemove \/ WatchSleep
    \/ TimePasses
    \/ \E s \in Ids : ConsumerStart(s) \/ Consumer(s)

SpecWatch == InitWatch /\ [][NextWatch]_vars

\* C1: flow control.  In every reachable state a session has sent at most
\* one block more than it has read acknowledgements containing RECV: block
\* n+1 is sent only after a RECV read that follows the n-th send.
C1_FlowControl ==
    \A s \in Ids : Len(sess[s].sent_idx) <= sess[s].acks + 1

\* a session has sent a second block, after an acknowledgement
C1_Witness ==
    \E s \in Ids : Len(sess[s].sent_idx) = 2 /\ sess[s].acks >= 1

\* C2: a registered session whose consecutive heartbeats are less than
\* `death` apart (a session with a prompt client) is never removed by the
\* reaper.
C2_PromptNeverReaped ==
    \A s \in Ids : sess[s].kind = "prompt" => s \notin reaped

\* the sweep has passed the entry of a prompt session whose last heartbeat
\* is one poll interval short of `death` old, and has left it registered
C2_Witness ==
    \E s \in Ids :
        /\ sess[s].kind = "prompt" /\ sess[s].pc = "recv"
        /\ HasProc(wd_procs, s)
        /\ wd_procs[FirstMatch(wd_procs, s)].heartbeat >= 0
        /\ now - wd_procs[FirstMatch(wd_procs, s)].heartbeat = DeathMs - PollMs
        /\ wd_pc = "for" /\ wd_idx >= FirstMatch(wd_procs, s)

\* C3: a session that stops heartbeating has its entry removed by the
\* reaper no later than death + poll interval after its last heartbeat:
\* while the reaper loop runs, no entry of the registry is older than that.
C3_ReapedWithinDeathPlusPoll ==
    wd_pc \notin {"idle", "crashed", "done"} =>
        \A k \in 1..Len(wd_procs) :
            wd_procs[k].heartbeat # -1 =>
                now - wd_procs[k].heartbeat <= DeathMs + PollMs

-----------------------------------------------------------------------------
(* SpecSession: one streaming session, its transport and the reaper, with
   time.  The threads of the server take their steps (weak fairness); what
   the client and the network do is not forced. *)

TheSession == 1

\* the server as started with two one-block tracks, or with an empty track
\* list
InitSession ==
    /\ \/ Loaded(<<Track("b.mp3", 1), Track("b.mp3", 1)>>)
       \/ Loaded(<<>>)
    /\ WatchdogIdle
    /\ FramesIdle

\* time.sleep(0.05) and the next for loop, past the last instant the model
\* counts: the reaper goes on sweeping, the time of its sleeps is no longer
\* added to `now` (entries do not age any further)
WatchSleepOn ==
    /\ wd_pc = "sleep"
    /\ wd_sweeps >= MaxSweeps
    /\ IF wd_running
       THEN wd_pc' = "for" /\ wd_idx' = 0
       ELSE wd_pc' = "done" /\ UNCHANGED wd_idx
    /\ UNCHANGED <<buffer, playlist, running, clockVars, now, wd_procs, wd_running,
                   wd_cur, wd_sweeps, reaped, sess, mainVars, frVars>>

ReaperStep ==
    WatchFor \/ WatchCheck \/ WatchFind \/ WatchRemove \/ WatchSleep \/ WatchSleepOn

\* the steps of Radio.consumer that do not wait for the peer
WorkerStep(s) ==
    \/ ConsumerJoin(s) \/ ConsumerLoop(s) \/ ConsumerSend(s)
    \/ ConsumerTeardownFind(s) \/ ConsumerTeardownRemove(s)

NextSession ==
    \/ MainStart
    \/ WatchFor \/ WatchCheck \/ WatchFind \/ WatchRemove \/ WatchSleep
    \/ WatchSleepOn
    \/ TimePasses
    \/ ConsumerStart(TheSession)
    \/ Consumer(TheSession)
    \/ ConsumerSendRaises(TheSession) \/ ConsumerRecvRaises(TheSession)

SpecSession ==
    /\ InitSession
    /\ [][NextSession]_vars
    /\ WF_vars(MainStart)
    /\ WF_vars(ReaperStep)
    /\ WF_vars(WorkerStep(TheSession))

\* C14: a streaming session whose client stalls without closing the
\* connection is reclaimed: its watchdog entry is removed within death + poll
\* interval of its last heartbeat, and the worker does not stay in the
\* blocking read of the acknowledgement for ever (it leaves the delivery
\* loop, closes the socket and exits).
\* A worker in the read has no step of its own: only the peer or the network
\* (ConsumerRecv, ConsumerReset, ConsumerRecvRaises) can end the read, and
\* the sweeps of the reaper read and write the registry only.
C14_StalledSessionReclaimed ==
    /\ [](wd_pc \notin {"idle", "crashed", "done"} =>
            \A k \in 1..Len(wd_procs) :
                wd_procs[k].heartbeat # -1 =>
                    now - wd_procs[k].heartbeat <= DeathMs + PollMs)
    /\ \A s \in Ids : (sess[s].pc = "recv") ~> (sess[s].pc # "recv")

\* C15: a transport error raised during delivery, on the send or on the
\* acknowledgement read, does not propagate out of the worker: no session
\* thread has been ended by one.
C15_TransportErrorsCaught ==
    \A s \in Ids : ~(sess[s].pc = "crashed" /\ sess[s].err \in TransportErrors)

\* the entry of id, when there is one
Entry(id) == wd_procs[FirstMatch(wd_procs, id)]

\* C17: is_alive(id) is false when no entry exists for id, true when the
\* entry holds the sentinel -1 however long ago it was registered, and
\* otherwise true exactly when now - last heartbeat <= death.
C17_IsAlive ==
    \A id \in Ids :
        LET alive == is_alive(wd_procs, id, now)
        IN  /\ ~HasProc(wd_procs, id) => ~alive
            /\ (HasProc(wd_procs, id) /\ Entry(id).heartbeat = -1) => alive
            /\ (HasProc(wd_procs, id) /\ Entry(id).heartbeat # -1) =>
                   (alive <=> now - Entry(id).heartbeat <= DeathMs)

\* the sweep has asked is_alive about an entry whose heartbeat is exactly
\* `death` old and has left the entry in the registry
C17_Witness ==
    /\ HasProc(wd_procs, TheSession)
    /\ Entry(TheSession).heartbeat # -1
    /\ now - Entry(TheSession).heartbeat = DeathMs
    /\ wd_pc = "for" /\ wd_idx = FirstMatch(wd_procs, TheSession)

\* C18: the heartbeat of a session whose entry has been removed (reaped
\* between the session's is_alive test and its heartbeat) fails silently: the
\* step that sends the block and heartbeats raises no error and leaves the
\* registry unchanged, and the session goes on.
C18_BeatOnRemovedIdSilent ==
    [][\A s \in Ids :
          (sess[s].pc = "send" /\ ~HasProc(wd_procs, s)
              /\ Len(sess'[s].sent_idx) = Len(sess[s].sent_idx) + 1) =>
              /\ wd_procs' = wd_procs
              /\ sess'[s].err = "none"
              /\ sess'[s].pc # "crashed"]_vars

\* C19: double removal is tolerated under every interleaving of the reaper
\* and a session's teardown: no step ends the reaper thread, and no step of a
\* session's teardown ends the session thread with an error.
C19_DoubleRemovalTolerated ==
    [][/\ wd_pc' # "crashed"
       /\ \A s \in Ids :
             sess[s].pc \in {"teardown", "teardown_remove"} => sess'[s].pc # "crashed"]_vars

\* C20: every exit of a session from the delivery loop performs the same
\* teardown: when the worker has exited, the client socket is closed and the
\* session has no watchdog entry.
C20_SameTeardownOnEveryExit ==
    \A s \in Ids :
        sess[s].pc = "done" => (sess[s].sock = "closed" /\ ~HasProc(wd_procs, s))

\* C26: the reaper loop keeps running as long as the watchdog's running
\* flag is set: no interleaving with a session registering, heartbeating or
\* removing its own entry makes the reaper thread stop.
C26_ReaperKeepsRunning ==
    wd_running => wd_pc \in {"for", "check", "find", "remove", "sleep"}

\* C27: no watchdog entry is leaked: once the worker of a session has
\* stopped, by whatever path, its entry is eventually absent; in particular
\* for a worker that stopped because the join position could not be computed.
C27_NoEntryLeaked ==
    \A s \in Ids :
        (sess[s].pc = "crashed" /\ sess[s].join = -1) ~> ~HasProc(wd_procs, s)

-----------------------------------------------------------------------------
(* Radio.producer: the clock *)

MaxUpTime == 3

\* lines 238-240: the duration of the buffer as it is when the thread runs
ProducerStart ==
    /\ prod_pc = "start"
    /\ buffer_length' = calculate_buffer_duration(buffer)
    /\ prod_pc' = "tick"
    /\ UNCHANGED <<buffer, playlist, running, up_time, radio_time, now, wdVars,
                   sess, mainVars, frVars>>

\* a variant of the tick that never resets radio_time
next_radio_time_nowrap(t, length) == t + 1

\* the new radio_time of lines 245-248; length is in duration units
next_radio_time(t, length) ==
    IF ~((t + 1) * UnitsPerSec > length) THEN t + 1 ELSE 0

\* lines 242-250: one iteration of the while loop
ProducerTick ==
    /\ prod_pc = "tick"
    /\ IF running
       THEN /\ up_time < MaxUpTime
            /\ up_time' = up_time + 1
            /\ radio_time' = next_radio_time(radio_time, buffer_length)
            /\ UNCHANGED prod_pc
       ELSE /\ prod_pc' = "done"
            /\ UNCHANGED <<up_time, radio_time>>
    /\ UNCHANGED <<buffer, playlist, running, buffer_length, now, wdVars,
                   sess, mainVars, frVars>>

-----------------------------------------------------------------------------
(* Radio.status *)

\* a variant of the walk that compares with < instead of <=
RECURSIVE now_playing_lt(_, _, _, _)
now_playing_lt(pl, k, track_time, current_time) ==
    IF k > Len(pl) THEN 0
    ELSE IF current_time < track_time + pl[k].length THEN k
    ELSE now_playing_lt(pl, k + 1, track_time + pl[k].length, current_time)

\* a variant of the walk that answers with the last track when it runs off
\* the end of a non-empty playlist
RECURSIVE now_playing_clamp(_, _, _, _)
now_playing_clamp(pl, k, track_time, current_time) ==
    IF k > Len(pl) THEN Len(pl)
    ELSE IF current_time <= track_time + pl[k].length THEN k
    ELSE now_playing_clamp(pl, k + 1, track_time + pl[k].length, current_time)

\* lines 224-227: the walk over the playlist from track k (1-based) on, with
\* track_time accumulated so far; the track found, or 0 when the loop ends
RECURSIVE now_playing(_, _, _, _)
now_playing(pl, k, track_time, current_time) ==
    IF k > Len(pl) THEN 0
    ELSE IF current_time <= track_time + pl[k].length THEN k
    ELSE now_playing(pl, k + 1, track_time + pl[k].length, current_time)

\* what a connection is sent: a bare 4-byte token, or a JSON document
\* {radio_time, uptime, current} after its decimal length; current is the
\* (1-based) place of the track in the playlist
Token(t) == [token |-> t]
Json(rt, up, k) == [length_prefix |-> TRUE, radio_time |-> rt, uptime |-> up, current |-> k]

\* what status sends: the length-prefixed JSON document of lines 229-230,
\* or the bare token of line 233
status_reply(pl, current_time, rt, up) ==
    LET k == now_playing(pl, 1, 0, current_time)
    IN  IF k # 0
        THEN <<Json(rt, up, k)>>
        ELSE <<Token("NFND")>>

\* the status thread: reads radio_time, answers and closes
Status ==
    /\ conn.state = "stat"
    /\ conn' = [conn EXCEPT !.state = "closed",
                            !.at = radio_time,
                            !.reply = status_reply(playlist, radio_time, radio_time, up_time)]
    /\ UNCHANGED <<buffer, playlist, running, clockVars, now, wdVars, sess,
                   main_pc, accepted, frVars>>

-----------------------------------------------------------------------------
(* Radio.main: the accept loop *)

MaxConns == 2

api_auth_key == "authkey"

\* tokens of a request that are not valid UTF-8: bytes.decode() raises
\* UnicodeDecodeError for them
Undecodable == {"\\xff"}
Decodes(token) == token \notin Undecodable

\* the paths a TADD request may name: files (see Files), a directory, and
\* a path that does not exist
Directories == {"dir"}

\* a variant of the test of line 351 for which every path exists
Exists_always(path) == TRUE

\* os.path.exists
Exists(path) == path \in DOMAIN Files \/ path \in Directories

Keys == {api_auth_key, "wrong", "\\xff"}
TaddPaths == {"b.mp3", "c.mp3", "dir", "missing"}

\* client_data.split(b" ") of the first message of a connection
Requests ==
    {<<"CONN">>, <<"STAT">>, <<"HELO">>}
      \cup {<<"TADD", api_auth_key, p>> : p \in TaddPaths}
      \cup {<<"TADD", k, p>> : k \in Keys, p \in {"b.mp3", "missing"}}
      \cup {<<"TADD", api_auth_key>>, <<"TADD", "wrong", "b.mp3", "x">>}

NewConn(data, state, reply) ==
    [data |-> data, state |-> state, reply |-> reply, at |-> -1]

\* lines 339-363: the TADD branch, run in the accept loop itself.  The
\* result is the reply sent, or "crash" when an exception leaves main, and
\* the new buffer.
tadd(data, buf) ==
    IF Len(data) < 3
    THEN [reply |-> <<Token("INVL")>>, crash |-> FALSE, buffer |-> buf]
    ELSE LET authkey == data[2]
             track   == data[3]
         IN  IF ~Decodes(authkey)
             THEN [reply |-> <<>>, crash |-> TRUE, buffer |-> buf]
             ELSE IF authkey = api_auth_key
             THEN IF ~Decodes(track)
                  THEN [reply |-> <<>>, crash |-> TRUE, buffer |-> buf]
                  ELSE IF ~Exists(track)
                  THEN [reply |-> <<Token("NFND")>>, crash |-> FALSE, buffer |-> buf]
                  ELSE IF track \notin DOMAIN Files      \* open() raises
                  THEN [reply |-> <<>>, crash |-> TRUE, buffer |-> buf]
                  ELSE [reply |-> <<Token("TADD")>>, crash |-> FALSE,
                        buffer |-> add_track(buf, track)]
             ELSE [reply |-> <<Token("AUTH")>>, crash |-> FALSE, buffer |-> buf]

\* a free session id for a new consumer thread
FreeIds == {s \in Ids : sess[s].pc = "idle"}

\* the sessions started earlier have all ended
NoneStreaming == \A s \in Ids : sess[s].pc \in {"idle", "done", "crashed"}

\* lines 323-368: one iteration of the accept loop that accepts a
\* connection and reads its first message
Accept ==
    /\ main_pc = "accept"
    /\ running
    /\ accepted < MaxConns
    /\ conn.state # "stat"
    /\ accepted' = accepted + 1
    /\ \E data \in Requests :
         CASE data[1] = "CONN" ->
                /\ FreeIds # {} /\ NoneStreaming
                /\ sess' = [sess EXCEPT ![Min(FreeIds)].pc = "start",
                                        ![Min(FreeIds)].sock = "open"]
                /\ conn' = NewConn(data, "conn", <<>>)
                /\ UNCHANGED <<buffer, main_pc>>
           [] data[1] = "STAT" ->
                /\ conn' = NewConn(data, "stat", <<>>)
                /\ UNCHANGED <<buffer, sess, main_pc>>
           [] data[1] = "TADD" ->
                LET r == tadd(data, buffer)
                IN  /\ buffer' = r.buffer
                    /\ conn' = NewConn(data, IF r.crash THEN "open" ELSE "closed", r.reply)
                    /\ main_pc' = IF r.crash THEN "crashed" ELSE "accept"
                    /\ UNCHANGED sess
           [] OTHER ->
                /\ conn' = NewConn(data, "closed", <<>>)
                /\ UNCHANGED <<buffer, sess, main_pc>>
    /\ UNCHANGED <<playlist, running, clockVars, now, wdVars, frVars>>

-----------------------------------------------------------------------------
(* Spec: the accept loop, the clock, the status and streaming sessions *)

\* the playlists loaded at startup
StartupPlaylists ==
    { <<>>,
      <<Track("b.mp3", 1)>>,
      <<Track("a.mp3", 0)>>,
      <<Track("a.mp3", 0), Track("b.mp3", 1)>> }

Init ==
    /\ \E tracks \in StartupPlaylists : Loaded(tracks)
    /\ WatchdogIdle
    /\ FramesIdle

Next ==
    \/ MainStart
    \/ ProducerStart \/ ProducerTick
    \/ Accept \/ Status
    \/ \E s \in Ids : Consumer(s)

Spec == Init /\ [][Next]_vars

CeilDiv(a, b) == (a + b - 1) \div b

\* the step is the accept loop handling a request `data`
Handles(data) == accepted' = accepted + 1 /\ conn'.data = data

\* C4: a TADD request with the correct secret and the path of an existing
\* file increases the playlist length by exactly 1 and the buffer length by
\* exactly ceil(file_size / block_size), and is answered with TADD.
C4_TaddAddsTrackAndBlocks ==
    [][\A path \in DOMAIN Files :
          Handles(<<"TADD", api_auth_key, path>>) =>
              /\ Len(playlist') = Len(playlist) + 1
              /\ Len(buffer') = Len(buffer) + CeilDiv(Len(Files[path]), chunk_size)
              /\ conn'.reply = <<Token("TADD")>>]_vars

\* C5: a TADD request whose secret does not exactly match the configured
\* secret is answered with AUTH and leaves the buffer and the playlist
\* unchanged, whether or not the path exists.
C5_WrongSecretAnsweredAuth ==
    [][\A data \in Requests :
          (Handles(data) /\ data[1] = "TADD" /\ Len(data) >= 3
              /\ data[2] # api_auth_key) =>
              /\ conn'.reply = <<Token("AUTH")>>
              /\ buffer' = buffer
              /\ playlist' = playlist]_vars

\* the frame playing at time t (seconds) in the byte stream of the buffer:
\* the first frame whose cumulative duration is >= t when the whole stream
\* is scanned as one block; first and last byte offset of that frame
PlayingAt(buf, t) ==
    LET stream == Flatten(buf)
        r      == find_chunk_by_time(<<stream>>, t * UnitsPerSec)
        size   == parse_mp3_header(SubSeq(stream, r.position + 1, r.position + 4)).frame_size
        last   == r.position + size - 1
    IN  [first |-> r.position,
         last  |-> IF last < Len(stream) THEN last ELSE Len(stream) - 1]

\* the join block of session s is a block that holds bytes of the frame
\* playing at the radio_time of the join
JoinsAtPlayingFrame(buf, ss) ==
    ss.join # -1 =>
        LET f == PlayingAt(buf, ss.join_time)
        IN  BlockOf(buf, f.first) <= ss.join /\ ss.join <= BlockOf(buf, f.last)

\* a step that sends a block sends the block after the previous one (the
\* join block first), or block 0 when that is past the end of the buffer
SendsInOrder(s) ==
    Len(sess'[s].sent_idx) = Len(sess[s].sent_idx) + 1 =>
        LET n    == Len(sess[s].sent_idx)
            want == IF n = 0 THEN sess[s].join ELSE sess[s].sent_idx[n] + 1
        IN  sess'[s].sent_idx[n + 1] = IF want >= Len(buffer) THEN 0 ELSE want

\* C6: a CONN issued when radio_time = T starts delivery at the block that
\* contains the frame playing at time T; successive RECV acknowledgements
\* then retrieve the following blocks in order and wrap to block 0.
C6_JoinAtFramePlaying ==
    [][\A s \in Ids : JoinsAtPlayingFrame(buffer', sess'[s]) /\ SendsInOrder(s)]_vars

\* declared length of the first k tracks
CumLength(pl, k) == SumSeq([j \in 1..k |-> pl[j].length])

\* a STAT connection that has been answered
StatAnswered == conn.data = <<"STAT">> /\ conn.state = "closed"

\* C9: STAT answers with the first track, in playlist order, whose
\* cumulative declared length is >= the radio_time it read (with
\* radio_time = 0 and a non-empty playlist: the first track).
C9_StatFirstTrackReachingTime ==
    StatAnswered =>
        LET S == {k \in 1..Len(playlist) : CumLength(playlist, k) >= conn.at}
        IN  S # {} =>
              /\ Len(conn.reply) = 1
              /\ "current" \in DOMAIN conn.reply[1]
              /\ conn.reply[1].current = Min(S)

\* STAT was answered with the second track at a radio_time above 0
C9_Witness ==
    /\ StatAnswered /\ conn.at >= 1
    /\ conn.reply = <<Json(conn.at, up_time, 2)>>

\* C10: STAT issued when radio_time exceeds the sum of the declared lengths,
\* or when the playlist is empty, is answered with exactly the token NFND,
\* without length prefix or payload, and the connection is closed.
C10_StatNotFound ==
    (conn.data = <<"STAT">> /\ conn.state # "stat"
        /\ (playlist = <<>> \/ conn.at > CumLength(playlist, Len(playlist)))) =>
        /\ conn.reply = <<Token("NFND")>>
        /\ conn.state = "closed"

\* STAT was answered NFND for a non-empty playlist whose declared lengths
\* the radio_time had passed
C10_Witness ==
    /\ StatAnswered /\ playlist # <<>>
    /\ conn.at > CumLength(playlist, Len(playlist))
    /\ conn.reply = <<Token("NFND")>>

\* C16: every tick increases up_time by exactly 1; radio_time increases by 1
\* unless radio_time + 1 would exceed the total duration computed at clock
\* start, in which case it is reset to 0; so after every step
\* 0 <= radio_time <= total duration and radio_time <= up_time (as in the
\* initial state, where all three are 0).
C16_ClockTick ==
    [][/\ (up_time' # up_time \/ radio_time' # radio_time) =>
             /\ up_time' = up_time + 1
             /\ radio_time' = IF (radio_time + 1) * UnitsPerSec > buffer_length
                               THEN 0 ELSE radio_time + 1
             /\ buffer_length' = buffer_length
       /\ 0 <= radio_time'
       /\ radio_time' * UnitsPerSec <= buffer_length'
       /\ radio_time' <= up_time']_vars

\* the clock has run to the end of the buffer, was reset to 0 and ticked on
C16_Witness ==
    /\ up_time = 3 /\ radio_time = 1
    /\ buffer_length >= UnitsPerSec

-----------------------------------------------------------------------------
(* The accept loop and malformed or failing requests *)

\* C11: a TADD command that does not consist of exactly 3 space-delimited
\* tokens (fewer or more) is answered with INVL, the connection is closed,
\* and the buffer and the playlist are unchanged.
C11_WrongTokenCountAnsweredInvl ==
    [][\A data \in Requests :
          (Handles(data) /\ data[1] = "TADD" /\ Len(data) # 3) =>
              /\ conn'.reply = <<Token("INVL")>>
              /\ conn'.state = "closed"
              /\ buffer' = buffer
              /\ playlist' = playlist]_vars

\* C12: no client input is fatal to the server: whatever the first messages
\* of the connections were, the accept loop has not ended; an unknown
\* command gets no reply and its connection is closed.
C12_NoClientInputFatal ==
    /\ main_pc # "crashed"
    /\ conn.data = <<"HELO">> => (conn.reply = <<>> /\ conn.state = "closed")

-----------------------------------------------------------------------------
(* The buffer and the cursor of a session under live ingestion *)

\* C21: within one session the indices of the blocks sent form the sequence
\* start, start + 1, ...: each next index is the previous plus 1, except
\* that a cursor >= the current buffer length becomes 0; also when the buffer
\* grows during the session.
C21_SendIndexSequence ==
    [][\A s \in Ids :
          Len(sess'[s].sent_idx) = Len(sess[s].sent_idx) + 1 =>
              LET n    == Len(sess[s].sent_idx)
                  prev == IF n = 0 THEN sess[s].join - 1 ELSE sess[s].sent_idx[n]
              IN  /\ SubSeq(sess'[s].sent_idx, 1, n) = sess[s].sent_idx
                  /\ sess'[s].sent_idx[n + 1] =
                        IF prev + 1 >= Len(buffer) THEN 0 ELSE prev + 1]_vars

\* the buffer as it was loaded at startup (TADD does not touch the playlist)
StartupBuffer == LoadTracks(<<>>, playlist)

\* a session that joined a one-block buffer at block 0 was sent block 1,
\* which ingestion appended before the cursor reached the old end
C21_Witness ==
    \E s \in Ids :
        /\ Len(StartupBuffer) = 1 /\ Len(buffer) > 1
        /\ sess[s].join = 0
        /\ sess[s].sent_idx = <<0, 1>>

\* C25: the buffer is append-only: no step decreases its length, and the
\* block stored at an index never changes once assigned (the startup
\* ingestion is a prefix of every later buffer).
C25_BufferAppendOnly ==
    [][/\ Len(buffer') >= Len(buffer)
       /\ \A k \in 1..Len(buffer) : buffer'[k] = buffer[k]
       /\ SubSeq(buffer', 1, Len(StartupBuffer)) = StartupBuffer]_vars

\* ingestion has appended blocks behind a non-empty startup buffer while a
\* session is streaming
C25_Witness ==
    /\ StartupBuffer # <<>>
    /\ Len(buffer) > Len(StartupBuffer)
    /\ \E s \in Ids : sess[s].pc = "recv"

\* C28: every block read by a streaming session is in range: every index
\* sent is below the buffer length, the cursor of a session about to send is
\* in range after the wrap, and no session has failed on self.buffer[i].
C28_CursorInRange ==
    \A s \in Ids :
        /\ \A k \in 1..Len(sess[s].sent_idx) :
               0 <= sess[s].sent_idx[k] /\ sess[s].sent_idx[k] < Len(buffer)
        /\ sess[s].pc = "send" =>
               (0 <= cursor(sess[s].i, Len(buffer))
                   /\ cursor(sess[s].i, Len(buffer)) < Len(buffer))
        /\ ~(sess[s].pc = "crashed" /\ sess[s].err = "IndexError")

\* a session that joined at the last block of the buffer is about to send
\* with its cursor at the buffer length
C28_Witness ==
    \E s \in Ids :
        /\ sess[s].pc = "send"
        /\ sess[s].join = Len(buffer) - 1 /\ sess[s].join > 0
        /\ sess[s].i = Len(buffer)

\* C29: joining never fails: in every state of the running server the
\* clock's radio_time is a time that find_chunk_by_time locates in the
\* current buffer, so a CONN at that moment obtains a start block.
C29_JoinNeverFails ==
    running => find_chunk_by_time(buffer, radio_time * UnitsPerSec).found

-----------------------------------------------------------------------------
(* SpecShutdown: the accept loop's first read, the clock's loop and the
   running flag *)

\* lines 326-327: accept() returns the connection of a client that sends
\* nothing, and the loop calls client_connection.recv(20000).  The timeout
\* of line 324 is set on the listening socket; the socket accept() returns
\* is a blocking socket without a timeout.
AcceptSilent ==
    /\ main_pc = "accept"
    /\ running
    /\ accepted < MaxConns
    /\ accepted' = accepted + 1
    /\ conn' = NewConn(<<>>, "open", <<>>)
    /\ main_pc' = "recv"
    /\ UNCHANGED <<buffer, playlist, running, clockVars, now, wdVars, sess, frVars>>

\* line 327 returns only by the client's doing: the peer closes (recv
\* returns b"", the else branch of lines 364-366 closes the connection) or
\* resets (ConnectionResetError, lines 330-331)
RecvEnds ==
    /\ main_pc = "recv"
    /\ conn' = [conn EXCEPT !.state = "closed"]
    /\ main_pc' = "accept"
    /\ UNCHANGED <<buffer, playlist, running, clockVars, now, wdVars, sess,
                   accepted, frVars>>

\* lines 326-335: a connection whose first message is CONN is handed to a
\* new consumer thread
Dispatch(s) ==
    /\ main_pc = "accept"
    /\ ConsumerStart(s)

\* lines 424-428: KeyboardInterrupt is raised in the main thread, inside
\* radio.main(); the handler clears both running flags
Shutdown ==
    /\ main_pc \in {"accept", "recv"}
    /\ wd_running' = FALSE
    /\ running' = FALSE
    /\ main_pc' = "stopped"
    /\ UNCHANGED <<buffer, playlist, clockVars, now, wd_procs, wd_pc, wd_idx,
                   wd_cur, wd_sweeps, reaped, sess, conn, accepted, frVars>>

\* a variant of the loop head that does not look at the flag
ProducerHead_unconditional ==
    /\ prod_pc = "tick"
    /\ prod_pc' = "body"
    /\ UNCHANGED <<buffer, playlist, running, up_time, radio_time, buffer_length,
                   now, wdVars, sess, mainVars, frVars>>

\* line 242: the test of `while self.running`
ProducerHead ==
    /\ prod_pc = "tick"
    /\ prod_pc' = IF running THEN "body" ELSE "done"
    /\ UNCHANGED <<buffer, playlist, running, up_time, radio_time, buffer_length,
                   now, wdVars, sess, mainVars, frVars>>

\* lines 243-250: the body of the loop: the tick, then time.sleep(1);
\* up_time is counted up to MaxUpTime
ProducerBody ==
    /\ prod_pc = "body"
    /\ up_time' = IF up_time < MaxUpTime THEN up_time + 1 ELSE up_time
    /\ radio_time' = next_radio_time(radio_time, buffer_length)
    /\ prod_pc' = "tick"
    /\ UNCHANGED <<buffer, playlist, running, buffer_length, now, wdVars, sess,
                   mainVars, frVars>>

\* the steps of the clock's loop
ProducerStep == ProducerHead \/ ProducerBody

NextShutdown ==
    \/ MainStart
    \/ ProducerStart \/ ProducerHead \/ ProducerBody
    \/ AcceptSilent \/ RecvEnds \/ Dispatch(TheSession)
    \/ Shutdown
    \/ Consumer(TheSession)

\* the threads of the server take their steps; clients and the operator
\* owe nothing
SpecShutdown ==
    /\ InitWatch
    /\ [][NextShutdown]_vars
    /\ WF_vars(MainStart)
    /\ []<>(prod_pc # "start")        \* WF_vars(ProducerStart), whose ENABLED is prod_pc = "start"
    /\ WF_vars(ProducerStep)
    /\ WF_vars(WorkerStep(TheSession))

\* C23: the accept loop's read of the first message is bounded in time: a
\* client that connects and sends nothing cannot keep the loop in that
\* read; the loop returns to accept (or observes the shutdown).
C23_FirstReadBounded ==
    (main_pc = "recv") ~> (main_pc \in {"accept", "stopped"})

\* the flag has been cleared by the shutdown
Cleared == main_pc = "stopped" /\ ~running

\* C24: once the running flag is cleared the clock's loop ends after at most
\* one more tick (a tick happens only from inside the body, the loop head
\* leaves the loop, and the loop is eventually left), from then on up_time
\* and radio_time never change, and a session that reaches its loop head
\* sends no further block.
C24_FlagStopsClockAndSessions ==
    /\ [][Cleared =>
            /\ Cleared'
            /\ (up_time' # up_time \/ radio_time' # radio_time) =>
                   (prod_pc = "body" /\ prod_pc' = "tick")
            /\ prod_pc = "tick" => prod_pc' \in {"tick", "done"}
            /\ prod_pc = "done" =>
                   (prod_pc' = "done" /\ up_time' = up_time /\ radio_time' = radio_time)
            /\ \A s \in Ids :
                   /\ sess[s].pc = "loop" => sess'[s].pc \in {"loop", "teardown"}
                   /\ sess[s].pc # "send" =>
                          (sess'[s].pc # "send" /\ sess'[s].sent_idx = sess[s].sent_idx)]_vars
    /\ Cleared ~> (prod_pc = "done")

\* the flag was cleared while the clock was inside the body of its loop and
\* a session was at its loop head, having been sent a block
C24_Witness ==
    /\ Cleared
    /\ prod_pc = "body" /\ up_time > 0
    /\ sess[TheSession].pc = "loop" /\ sess[TheSession].sent_idx # <<>>

-----------------------------------------------------------------------------
(* SpecClient: Radio.consumer composed with Client.fetch_audio of
   sockclient.py over a byte stream.  Of the client, a session records
   got, the bytes sock.recv has returned so far, and recvs, the RECV tokens
   it has sent. *)

\* the bytes the server has written to the connection with its first k sends
RECURSIVE SentBytes(_, _)
SentBytes(s, k) ==
    IF k = 0 THEN 0
    ELSE Len(buffer[sess[s].sent_idx[k] + 1]) + SentBytes(s, k - 1)

\* the bytes written and not yet read by the client
InFlight(s) == SentBytes(s, Len(sess[s].sent_idx)) - sess[s].got

\* what sock.recv(self.chunk_size) may return when avail bytes have arrived
\* or are on their way: at least one byte, at most chunk_size, any part of
\* it (here all of it, or half of it)
ReadSizes(avail) ==
    {n \in {avail \div 2, avail} : 1 <= n /\ n <= avail /\ n <= chunk_size}

\* sockclient.py lines 150-162: one iteration of the loop of fetch_audio:
\* data = sock.recv(self.chunk_size), written to ffmpeg, then
\* sock.send(b"RECV")
ClientRecv(s) ==
    /\ sess[s].pc \in {"loop", "send", "recv"}
    /\ InFlight(s) > 0
    /\ \E n \in ReadSizes(InFlight(s)) :
         sess' = [sess EXCEPT ![s].got = @ + n, ![s].recvs = @ + 1]
    /\ UNCHANGED <<buffer, playlist, running, clockVars, now, wdVars,
                   mainVars, frVars>>

\* sockserver.py lines 282-283: client.recv(4) returns one of the RECV tokens
\* the client has sent; it blocks while there is none
ConsumerRecvAck(s) ==
    /\ sess[s].pc = "recv"
    /\ sess[s].recvs > sess[s].acks
    /\ sess' = [sess EXCEPT ![s].acks = @ + 1, ![s].pc = "loop"]
    /\ UNCHANGED <<buffer, playlist, running, clockVars, now, wdVars,
                   mainVars, frVars>>

NextClient ==
    \/ MainStart
    \/ ConsumerStart(TheSession)
    \/ ConsumerJoin(TheSession) \/ ConsumerLoop(TheSession) \/ ConsumerSend(TheSession)
    \/ ConsumerRecvAck(TheSession)
    \/ ClientRecv(TheSession)

SpecClient == InitWatch /\ [][NextClient]_vars

\* the number of blocks, of those sent, that the client has received whole
WholeBlocks(s) ==
    Cardinality({k \in 1..Len(sess[s].sent_idx) : SentBytes(s, k) <= sess[s].got})

\* C30: over a byte stream that may deliver a block in several partial
\* reads the client sends one RECV per block fully received: the RECV tokens
\* it has sent never exceed the whole blocks it has received, and the server
\* has never sent block n+1 before the client holds all of block n.
C30_OneRecvPerWholeBlock ==
    \A s \in Ids :
        /\ sess[s].recvs <= WholeBlocks(s)
        /\ WholeBlocks(s) >= Len(sess[s].sent_idx) - 1

=============================================================================
